---- MODULE Spec2Model ----
(***************************************************************************)
(* A model of the ray tracer: the geometry (matrix.rs, scene.rs), the      *)
(* intersection scan, the interlaced multi-threaded render pass and the    *)
(* progressive SmoothingFramebuffer (tracer.rs), and the driver loop       *)
(* (main.rs).                                                              *)
(*                                                                         *)
(* Numbers.  An f64 is modelled by an integer count of 1/Unit (a grid on   *)
(* which sums are exact and products and quotients round toward zero), or  *)
(* by NaN, which propagates through arithmetic and makes every comparison  *)
(* false as IEEE 754 does.  The thresholds 0.00000001 of scene.rs lie      *)
(* below the grid's resolution, so on grid values "x > 0.00000001" is      *)
(* "x > 0" and "x < 0.00000001" is "x <= 0".  Angles are whole degrees,    *)
(* multiples of 90, whose sines and cosines lie on the grid.               *)
(***************************************************************************)
EXTENDS Integers, Sequences, FiniteSets, TLC

VARIABLES
    scene,        \* Scene: [objects |-> sequence of Sphere / Plane records]
    ray,          \* the Ray last passed to get_intersection
    hits,         \* hits[i]: what scene.objects[i].intersect(&ray) returned
    found,        \* what get_intersection(scene, ray) returned
    cast,         \* TRUE once a ray has been cast
    buffer,       \* main's SmoothingFramebuffer
    shown,        \* the Framebuffer SmoothingFramebuffer::update writes to
    num_threads,  \* the worker count passed to trace_image_async
    paused,       \* main's paused flag
    pc,           \* where main is: "loop", "spawn", "join", "merge", "present",
                  \*   "panicked" (main unwound) or "exited"
    loop_i,       \* the index i of the loop trace_image_async is in
    partial,      \* trace_image_async's vector of PartialFramebuffers
    poisoned,     \* poisoned[j]: the Mutex of partial[j] is poisoned
    threads,      \* the spawned workers: state, loop position, captured values
    level,        \* what the scene radiates in the frame being rendered
    reference,    \* trace_image applied to the target as it was when the pass began
    passStart,    \* the target as it was when the pass began
    contributions,\* the levels of the frames merged so far, oldest first
    rendered,     \* rendered[k]: the workers that traced the pixel of linear index k
    wrote,        \* wrote[j]: the workers that stored into partial[j]
    tracer,       \* Tracer: max_reflect, reflect_samples, refract_samples
    tpc,          \* where trace_multi_ray is: "call" (about to call
                  \*   trace_single_ray), "loop" (at the top of its loop),
                  \*   "returned", "panicked", or "absent"
    arg_ray,      \* the ray trace_multi_ray was called with
    sample,       \* the trace_single_ray calls trace_multi_ray has completed
    reflect,      \* trace_single_ray's remaining-bounce counter
    result,       \* trace_single_ray's RayTraceResult
    color_mask,   \* trace_single_ray's color_mask
    path_ray,     \* trace_single_ray's ray: the direction it now has
    path,         \* what the path of the running trace_single_ray call did so far
    primary,      \* what the path of the primary sample did
    tmp,          \* trace_multi_ray's tmp
    samples,      \* trace_multi_ray's samples
    total,        \* the sum of the colours the trace_single_ray calls returned
    transform,    \* the Transform of an Object
    held,         \* a Transform value held by the caller
    pfb,          \* a PartialFramebuffer
    target,       \* the Framebuffer PartialFramebuffer::update was given
    stored,       \* stored[k]: the colour set_pixel last stored for linear index k - 1
    sfb,          \* a SmoothingFramebuffer
    call          \* the last SmoothingFramebuffer::set_pixel call and what it met

isectVars == <<scene, ray, hits, found, cast>>
passVars ==
    <<buffer, shown, num_threads, paused, pc, loop_i, partial, poisoned, threads, level,
      reference, passStart, contributions, rendered, wrote>>
traceVars ==
    <<tracer, tpc, arg_ray, sample, reflect, result, color_mask, path_ray, path, primary, tmp,
      samples, total>>
transformVars == <<transform, held>>
partialVars == <<pfb, target, stored>>
smoothingVars == <<sfb, call>>
unitVars == <<traceVars, transformVars, partialVars, smoothingVars>>
vars == <<isectVars, passVars, unitVars>>

\* the state of a part of the program a specification does not exercise
TraceAbsent ==
    /\ tracer = <<>>
    /\ tpc = "absent"
    /\ arg_ray = <<>>
    /\ sample = 0
    /\ reflect = 0
    /\ result = <<>>
    /\ color_mask = <<>>
    /\ path_ray = <<>>
    /\ path = <<>>
    /\ primary = <<>>
    /\ tmp = <<>>
    /\ samples = 0
    /\ total = <<>>

TransformAbsent ==
    /\ transform = <<>>
    /\ held = <<>>

PartialAbsent ==
    /\ pfb = <<>>
    /\ target = <<>>
    /\ stored = <<>>

SmoothingAbsent ==
    /\ sfb = <<>>
    /\ call = <<>>

UnitsAbsent == TraceAbsent /\ TransformAbsent /\ PartialAbsent /\ SmoothingAbsent

-----------------------------------------------------------------------------
(* Bounds of the model *)

\* grid resolution: one unit of length is Unit grid steps
Unit == 4
\* largest number of objects in a scene
MaxObjects == 2
\* largest number of pixels of an image
MaxPixels == 4
\* largest worker count
MaxThreads == 3
\* frames rendered before the model stops the driver loop
MaxFrames == 2
\* most events one poll of the event pump returns
MaxEvents == 1

-----------------------------------------------------------------------------
(* f64 *)

\* the not-a-number value (f64::sqrt of a negative number produces it)
NaN == -1000000

IsNaN(x) == x = NaN

Abs(x) == IF x < 0 THEN -x ELSE x

\* integer quotient rounded toward zero
Quot(n, d) ==
    LET q == Abs(n) \div Abs(d)
    IN  IF (n < 0) = (d < 0) THEN q ELSE -q

ISqrt(n) == CHOOSE s \in 0..n : s * s <= n /\ (s + 1) * (s + 1) > n

FAdd(x, y) == IF IsNaN(x) \/ IsNaN(y) THEN NaN ELSE x + y
FSub(x, y) == IF IsNaN(x) \/ IsNaN(y) THEN NaN ELSE x - y
FNeg(x) == IF IsNaN(x) THEN NaN ELSE -x
FMul(x, y) == IF IsNaN(x) \/ IsNaN(y) THEN NaN ELSE Quot(x * y, Unit)
\* 0.0 / 0.0 is NaN; no nonzero value is divided by zero for the inputs drawn
FDiv(x, y) == IF IsNaN(x) \/ IsNaN(y) \/ y = 0 THEN NaN ELSE Quot(x * Unit, y)
FSqrt(x) == IF IsNaN(x) \/ x < 0 THEN NaN ELSE ISqrt(x * Unit)
FAbs(x) == IF IsNaN(x) THEN NaN ELSE Abs(x)
FSignum(x) == IF IsNaN(x) THEN NaN ELSE IF x < 0 THEN -Unit ELSE Unit

\* comparisons: false whenever an operand is NaN
FLt(x, y) == ~IsNaN(x) /\ ~IsNaN(y) /\ x < y
FGt(x, y) == ~IsNaN(x) /\ ~IsNaN(y) /\ x > y
FLe(x, y) == ~IsNaN(x) /\ ~IsNaN(y) /\ x <= y
FGe(x, y) == ~IsNaN(x) /\ ~IsNaN(y) /\ x >= y

\* x > 0.00000001, x < 0.00000001, x <= 0.00000001 on grid values
GtEps(x) == ~IsNaN(x) /\ x > 0
LtEps(x) == ~IsNaN(x) /\ x <= 0
LeEps(x) == ~IsNaN(x) /\ x <= 0

-----------------------------------------------------------------------------
(* matrix.rs: Vector<3> and Matrix<3, 3> *)

Vec(x, y, z) == <<x * Unit, y * Unit, z * Unit>>

VAdd(u, v) == [i \in 1..3 |-> FAdd(u[i], v[i])]
VSub(u, v) == [i \in 1..3 |-> FSub(u[i], v[i])]
VMul(u, v) == [i \in 1..3 |-> FMul(u[i], v[i])]
VDiv(u, v) == [i \in 1..3 |-> FDiv(u[i], v[i])]
VScale(u, f) == [i \in 1..3 |-> FMul(u[i], f)]
VDivF(u, f) == [i \in 1..3 |-> FDiv(u[i], f)]
VNeg(u) == [i \in 1..3 |-> FNeg(u[i])]

Dot(u, v) == FAdd(FAdd(FAdd(0, FMul(u[1], v[1])), FMul(u[2], v[2])), FMul(u[3], v[3]))
SqrMagnitude(u) == FAdd(FAdd(FMul(u[1], u[1]), FMul(u[2], u[2])), FMul(u[3], u[3]))

\* sin and cos of an angle of d degrees, d a multiple of 90
Sin(d) == LET m == d % 360 IN IF m = 90 THEN Unit ELSE IF m = 270 THEN -Unit ELSE 0
Cos(d) == LET m == d % 360 IN IF m = 0 THEN Unit ELSE IF m = 180 THEN -Unit ELSE 0

MatIdentity == <<<<Unit, 0, 0>>, <<0, Unit, 0>>, <<0, 0, Unit>>>>
MatZero == <<<<0, 0, 0>>, <<0, 0, 0>>, <<0, 0, 0>>>>

RotateX(d) == <<<<Unit, 0, 0>>, <<0, Cos(d), -Sin(d)>>, <<0, Sin(d), Cos(d)>>>>
RotateY(d) == <<<<Cos(d), 0, Sin(d)>>, <<0, Unit, 0>>, <<-Sin(d), 0, Cos(d)>>>>
RotateZ(d) == <<<<Cos(d), -Sin(d), 0>>, <<Sin(d), Cos(d), 0>>, <<0, 0, Unit>>>>

\* Mul<Matrix> for Matrix: out.data[j][i] += self.data[k][i] * rhs.data[j][k]
MatMul(self, rhs) ==
    [j \in 1..3 |-> [i \in 1..3 |->
        FAdd(FAdd(FAdd(0, FMul(self[1][i], rhs[j][1])),
                  FMul(self[2][i], rhs[j][2])),
             FMul(self[3][i], rhs[j][3]))]]

\* Mul<Matrix> for Vector: tmp[i] += rhs.data[j][i] * self[j]
VecMat(self, rhs) ==
    [i \in 1..3 |->
        FAdd(FAdd(FAdd(0, FMul(rhs[1][i], self[1])),
                  FMul(rhs[2][i], self[2])),
             FMul(rhs[3][i], self[3]))]

-----------------------------------------------------------------------------
(* scene.rs: Transform *)

GenMtx(t) ==
    [t EXCEPT
        !.mtx = MatMul(MatMul(RotateX(t.angle[1]), RotateY(t.angle[2])),
                       RotateZ(t.angle[3])),
        !.inv_mtx = MatMul(MatMul(RotateZ(-t.angle[3]), RotateY(-t.angle[2])),
                           RotateX(-t.angle[1]))]

TransformFrom(pos, scale, angle) ==
    GenMtx([pos |-> pos, scale |-> scale, angle |-> angle,
            mtx |-> MatZero, inv_mtx |-> MatZero])

WorldToLocal(t, pos) == VDiv(VecMat(VSub(pos, t.pos), t.inv_mtx), t.scale)
LocalToWorld(t, pos) == VAdd(VecMat(VMul(pos, t.scale), t.mtx), t.pos)
NormalWorldToLocal(t, normal) == VecMat(normal, t.inv_mtx)
NormalLocalToWorld(t, normal) == VecMat(normal, t.mtx)

RayWorldToLocal(t, r) ==
    [pos |-> WorldToLocal(t, r.pos), normal |-> NormalWorldToLocal(t, r.normal)]
RayLocalToWorld(t, r) ==
    [pos |-> LocalToWorld(t, r.pos), normal |-> NormalLocalToWorld(t, r.normal)]

-----------------------------------------------------------------------------
(* scene.rs: PhysProp, Intersect, Sphere, Plane *)

\* Option<T>: None is the empty sequence, Some(x) the sequence of x alone
None == <<>>
Some(x) == <<x>>

PhysPropFromColor(color) ==
    [ior |-> Unit, roughness |-> Unit, color |-> color, emission |-> Vec(0, 0, 0)]

\* the local-space ray of a primitive
LocalRay(obj, r) == RayWorldToLocal(obj.transform, r)

\* Sphere::intersect: a and the discriminant b
SphereA(s, r) == FNeg(Dot(LocalRay(s, r).normal, LocalRay(s, r).pos))
SphereB(s, r) ==
    FAdd(FSub(FMul(SphereA(s, r), SphereA(s, r)), SqrMagnitude(LocalRay(s, r).pos)),
         FMul(s.radius, s.radius))

\* the distance Sphere::intersect settles on, None when it returns None
SphereDistance(a, b) ==
    IF FLt(b, 0) THEN None
    ELSE IF LtEps(b)
         THEN (IF GtEps(a) THEN Some(a) ELSE None)
         ELSE LET dist0 == FAdd(a, FSqrt(b))
                  dist1 == FSub(a, FSqrt(b))
              IN  IF FLt(dist0, dist1) /\ GtEps(dist0) THEN Some(dist0)
                  ELSE IF GtEps(dist1) THEN Some(dist1)
                  ELSE None

SphereIntersect(s, r) ==
    LET lr == LocalRay(s, r)
        d == SphereDistance(SphereA(s, r), SphereB(s, r))
    IN  IF d = None THEN None
        ELSE LET pos == VAdd(lr.pos, VScale(lr.normal, d[1]))
             IN  Some([pos |-> LocalToWorld(s.transform, pos),
                       normal |-> NormalLocalToWorld(s.transform, VDivF(pos, s.radius)),
                       prop |-> s.prop,
                       distance |-> d[1]])

\* Plane::intersect: the distance test, TRUE when the plane is rejected
PlaneTooClose(distance) == LeEps(distance)

PlaneOutsideYOnly(pos) == FGt(FAbs(pos[2]), Unit)

\* Plane::intersect: the bounds test on the local hit point
PlaneOutside(pos) == FGt(FAbs(pos[1]), Unit) \/ FGt(FAbs(pos[2]), Unit)

PlaneIntersect(p, r) ==
    LET lr == LocalRay(p, r)
    IN  IF LtEps(FAbs(lr.normal[3])) THEN None
        ELSE LET distance == FDiv(FNeg(lr.pos[3]), lr.normal[3])
             IN  IF PlaneTooClose(distance) THEN None
                 ELSE LET pos == VAdd(lr.pos, VScale(lr.normal, distance))
                      IN  IF PlaneOutside(pos) THEN None
                          ELSE Some([pos |-> LocalToWorld(p.transform, pos),
                                     normal |-> NormalLocalToWorld(p.transform,
                                                  <<0, 0, FSignum(lr.pos[3])>>),
                                     prop |-> p.prop,
                                     distance |-> distance])

\* dyn Object dispatch
ObjIntersect(obj, r) ==
    IF obj.kind = "sphere" THEN SphereIntersect(obj, r) ELSE PlaneIntersect(obj, r)

-----------------------------------------------------------------------------
(* tracer.rs: Tracer::get_intersection *)

CloserKeepsFarthest(cur, intersect) == FLt(cur.distance, intersect.distance)

\* whether the scan replaces the current closest hit by a new one
Closer(cur, intersect) == FGt(cur.distance, intersect.distance)

RECURSIVE ScanObjects(_, _, _, _)
ScanObjects(objects, r, i, out) ==
    IF i > Len(objects) THEN out
    ELSE LET h == ObjIntersect(objects[i], r)
         IN  ScanObjects(objects, r, i + 1,
                IF h # None
                THEN (IF out # None
                      THEN (IF Closer(out[1], h[1]) THEN h ELSE out)
                      ELSE h)
                ELSE out)

GetIntersection(sc, r) == ScanObjects(sc.objects, r, 1, None)

-----------------------------------------------------------------------------
(* Inputs of the intersection specification *)

Half == Unit \div 2

Sphere(pos, radius, color) ==
    [kind |-> "sphere",
     transform |-> TransformFrom(pos, Vec(1, 1, 1), <<0, 0, 0>>),
     radius |-> radius,
     prop |-> PhysPropFromColor(color)]

Plane(pos, angle, color) ==
    [kind |-> "plane",
     transform |-> TransformFrom(pos, Vec(1, 1, 1), angle),
     radius |-> 0,
     prop |-> PhysPropFromColor(color)]

\* the primitives scenes are built from
Primitives ==
    { Sphere(Vec(0, 0, 2), Half, Vec(1, 0, 0)),                 \* main.rs, first sphere
      Sphere(Vec(0, 0, 2), Unit, Vec(0, 1, 0)),                 \* same centre, radius 1
      Sphere(<<Half, 0, 2 * Unit>>, Half, Vec(0, 0, 1)),        \* tangent to the z axis
      Plane(<<0, 0, Unit + Half>>, <<0, 0, 0>>, Vec(1, 1, 0)),  \* facing the camera at z = 1.5
      Plane(<<0, Half, 2 * Unit>>, <<90, 0, 0>>, Vec(1, 1, 1)), \* main.rs, the floor
      Plane(<<0, 0, 3 * Unit>>, <<0, 180, 0>>, Vec(0, 1, 1)) }

RECURSIVE SeqsUpTo(_, _)
SeqsUpTo(S, n) ==
    IF n = 0 THEN {<<>>}
    ELSE LET shorter == SeqsUpTo(S, n - 1)
         IN  shorter \cup {Append(s, x) : s \in shorter, x \in S}

Origins ==
    { <<0, 0, 0>>, <<0, 0, 2 * Unit>>, <<0, 0, 4 * Unit>>,
      <<Half, 0, 0>>, <<2 * Unit, 0, 0>>, <<0, -Unit, 2 * Unit>>,
      <<0, 0, Unit + Half>> }

\* unit directions along the axes, and the direction the refraction formula of
\* trace_single_ray leaves behind when its square root's argument is negative
Directions ==
    { Vec(0, 0, 1), Vec(0, 0, -1), Vec(1, 0, 0), Vec(-1, 0, 0),
      Vec(0, 1, 0), Vec(0, -1, 0), <<NaN, NaN, NaN>> }

Rays == { [pos |-> o, normal |-> d] : o \in Origins, d \in Directions }

-----------------------------------------------------------------------------
(* The intersection specification: rays cast into a scene *)

\* the render loop's state while no image is rendered
PassAbsent ==
    /\ buffer = [kind |-> "smoothing", buffer |-> <<>>, frame |-> 0,
                 width |-> 0, height |-> 0]
    /\ shown = [kind |-> "sink", pixels |-> <<>>, width |-> 0, height |-> 0]
    /\ num_threads = 1
    /\ paused = FALSE
    /\ pc = "exited"
    /\ loop_i = 0
    /\ partial = <<>>
    /\ poisoned = <<>>
    /\ threads = <<>>
    /\ level = 0
    /\ reference = buffer
    /\ passStart = buffer
    /\ contributions = <<>>
    /\ rendered = <<>>
    /\ wrote = <<>>

InitIsect ==
    /\ PassAbsent
    /\ UnitsAbsent
    /\ scene \in { [objects |-> objs] : objs \in SeqsUpTo(Primitives, MaxObjects) }
    /\ ray = [pos |-> Vec(0, 0, 0), normal |-> Vec(0, 0, 1)]
    /\ hits = <<>>
    /\ found = None
    /\ cast = FALSE

CastRay(r) ==
    /\ ~cast
    /\ ray' = r
    /\ hits' = [i \in 1..Len(scene.objects) |-> ObjIntersect(scene.objects[i], r)]
    /\ found' = GetIntersection(scene, r)
    /\ cast' = TRUE
    /\ UNCHANGED <<scene, passVars, unitVars>>

NextIsect == \E r \in Rays : CastRay(r)

SpecIsect == InitIsect /\ [][NextIsect]_vars

-----------------------------------------------------------------------------
(* Claims about the intersection tests *)

Hitting == { i \in 1..Len(hits) : hits[i] # None }

Spheres == { i \in 1..Len(scene.objects) : scene.objects[i].kind = "sphere" }
Planes == { i \in 1..Len(scene.objects) : scene.objects[i].kind = "plane" }

\* IEEE equality of two f64
FEq(x, y) == ~IsNaN(x) /\ ~IsNaN(y) /\ x = y

\* the scene without the primitives the ray does not hit
OnlyHit(sc, r) ==
    [objects |-> SelectSeq(sc.objects, LAMBDA o : ObjIntersect(o, r) # None)]

\* C5: get_intersection returns None iff no primitive reports a hit; otherwise it
\* returns a primitive's hit than which no other hit is closer, the earliest in
\* scene order among the hits at that distance; and the primitives that report no
\* hit can be removed from the scene without changing the result.
C5_NearestHit ==
    cast =>
        /\ (found = None) <=> (Hitting = {})
        /\ found # None =>
              \E i \in Hitting :
                  /\ hits[i] = found
                  /\ \A j \in Hitting : ~FLt(hits[j][1].distance, found[1].distance)
                  /\ \A j \in Hitting :
                        j < i => ~FEq(hits[j][1].distance, found[1].distance)
        /\ GetIntersection(OnlyHit(scene, ray), ray) = found

\* a later primitive replaced an earlier, farther hit
C5_Witness ==
    /\ cast
    /\ Len(hits) >= 2
    /\ hits[1] # None
    /\ hits[2] # None
    /\ found = hits[2]
    /\ FLt(hits[2][1].distance, hits[1][1].distance)

\* two primitives hit at the same distance and the first one is returned
C5_TieWitness ==
    /\ cast
    /\ Len(hits) >= 2
    /\ hits[1] # None
    /\ hits[2] # None
    /\ hits[1] # hits[2]
    /\ FEq(hits[1][1].distance, hits[2][1].distance)
    /\ found = hits[1]

\* C6: a sphere reports a hit iff its local-space discriminant b is >= 0 and at
\* least one of the roots a + sqrt(b), a - sqrt(b) exceeds 1e-8 (so a ray that
\* starts inside the sphere hits at the larger root).
C6_SphereHitIffRoot ==
    cast =>
        \A i \in Spheres :
            LET a == SphereA(scene.objects[i], ray)
                b == SphereB(scene.objects[i], ray)
            IN  (hits[i] # None) <=>
                    /\ FGe(b, 0)
                    /\ \/ GtEps(FAdd(a, FSqrt(b)))
                       \/ GtEps(FSub(a, FSqrt(b)))

\* C7: every Intersect a primitive or get_intersection returns has a distance
\* strictly greater than 1e-8.
C7_DistanceAboveEps ==
    cast =>
        /\ \A i \in Hitting : GtEps(hits[i][1].distance)
        /\ found # None => GtEps(found[1].distance)

\* C8: a plane never reports a hit whose local-space hit point has |x| > 1 or
\* |y| > 1, and reports no hit when the local-space direction has |z| < 1e-8.
C8_PlaneBounded ==
    cast =>
        \A i \in Planes :
            LET p == scene.objects[i]
            IN  /\ hits[i] # None =>
                      LET pos == WorldToLocal(p.transform, hits[i][1].pos)
                      IN  /\ ~FGt(FAbs(pos[1]), Unit)
                          /\ ~FGt(FAbs(pos[2]), Unit)
                /\ LtEps(FAbs(LocalRay(p, ray).normal[3])) => hits[i] = None

\* one plane is hit inside its unit square, another is parallel to the ray
C8_Witness ==
    /\ cast
    /\ \E i \in Planes : hits[i] # None
    /\ \E j \in Planes :
          /\ LtEps(FAbs(LocalRay(scene.objects[j], ray).normal[3]))
          /\ hits[j] = None

-----------------------------------------------------------------------------
(* tracer.rs: the Framebuffer trait and its implementations *)

U16Max == 65535

\* exact rationals <<numerator, denominator>>, for 1.0 / frame and its products
RECURSIVE Gcd(_, _)
Gcd(a, b) == IF b = 0 THEN a ELSE Gcd(b, a % b)

Rat(n, d) ==
    IF d = 0 THEN <<n, 0>>
    ELSE LET g == Gcd(Abs(n), Abs(d)) IN <<n \div g, d \div g>>

\* col * scale, col a colour on the grid and scale a rational
ColTimes(col, scale) == [c \in 1..3 |-> Rat(col[c] * scale[1], scale[2])]

Black == <<0, 0, 0>>

PartialLengthRoundsDown(width, height, interlace_count, interlace_offset) ==
    (width * height) \div interlace_count

\* the slot count PartialFramebuffer::new and ::update compute
PartialLength(width, height, interlace_count, interlace_offset) ==
    LET length == width * height
    IN  IF (length % interlace_count) > interlace_offset
        THEN length \div interlace_count + 1
        ELSE length \div interlace_count

PartialNew(width, height, interlace_count, interlace_offset) ==
    [kind |-> "partial",
     data |-> [k \in 1..PartialLength(width, height, interlace_count,
                                     interlace_offset) |-> Black],
     width |-> width,
     height |-> height,
     interlace_count |-> interlace_count,
     interlace_offset |-> interlace_offset]

SmoothingNew(width, height) ==
    [kind |-> "smoothing",
     buffer |-> [k \in 1..(width * height) |-> Black],
     frame |-> 0,
     width |-> width,
     height |-> height]

\* a Framebuffer that keeps the colour set_pixel was last given for each pixel
SinkNew(width, height) ==
    [kind |-> "sink",
     pixels |-> [k \in 1..(width * height) |-> ColTimes(Black, <<1, 1>>)],
     width |-> width,
     height |-> height]

\* PartialFramebuffer::set_pixel keeps the pixel of linear index `index`
Interlaced(index, interlace_count, interlace_offset) ==
    index % interlace_count = interlace_offset

OwnsEveryPixel(index, interlace_amount, interlace_offset) == TRUE

\* trace_partial_image renders the pixel of linear index `index` (it does not
\* `continue`)
OwnsPixel(index, interlace_amount, interlace_offset) ==
    index % interlace_amount = interlace_offset

\* PartialFramebuffer::set_pixel panics: the slot lies outside data
PartialSetPixelPanics(fb, x, y) ==
    LET index == x + y * fb.width
    IN  /\ Interlaced(index, fb.interlace_count, fb.interlace_offset)
        /\ index \div fb.interlace_count >= Len(fb.data)

PartialSetPixel(fb, x, y, col) ==
    LET index == x + y * fb.width
    IN  IF ~Interlaced(index, fb.interlace_count, fb.interlace_offset) THEN fb
        ELSE [fb EXCEPT !.data[index \div fb.interlace_count + 1] = col]

\* SmoothingFramebuffer::set_pixel panics: an assertion fails or the index is
\* outside buffer
SmoothingSetPixelPanics(fb, x, y) ==
    \/ ~(x <= fb.width)
    \/ ~(y <= fb.height)
    \/ y * fb.width + x >= Len(fb.buffer)

AccumulateOverwrites(old, col) == col

\* what buffer[..] += col leaves in the slot
Accumulate(old, col) == VAdd(old, col)

SmoothingSetPixel(fb, x, y, col) ==
    [fb EXCEPT !.buffer[y * fb.width + x + 1] = Accumulate(@, col)]

SinkSetPixel(fb, x, y, col) ==
    [fb EXCEPT !.pixels[y * fb.width + x + 1] = col]

\* a Framebuffer that keeps every set_pixel call it receives, in order
RecorderNew(width, height) ==
    [kind |-> "recorder", calls |-> <<>>, width |-> width, height |-> height,
     updated |-> FALSE, panicked |-> FALSE]

RecorderSetPixel(fb, x, y, col) == [fb EXCEPT !.calls = Append(@, <<x, y, col>>)]

\* dyn Framebuffer dispatch
SetPixelPanics(fb, x, y) ==
    IF fb.kind = "partial" THEN PartialSetPixelPanics(fb, x, y)
    ELSE IF fb.kind = "smoothing" THEN SmoothingSetPixelPanics(fb, x, y)
    ELSE IF fb.kind = "recorder" THEN FALSE
    ELSE y * fb.width + x >= Len(fb.pixels)

SetPixel(fb, x, y, col) ==
    IF fb.kind = "partial" THEN PartialSetPixel(fb, x, y, col)
    ELSE IF fb.kind = "smoothing" THEN SmoothingSetPixel(fb, x, y, col)
    ELSE IF fb.kind = "recorder" THEN RecorderSetPixel(fb, x, y, col)
    ELSE SinkSetPixel(fb, x, y, col)

PartialIndexNoOffset(k, interlace_count, interlace_offset) == k * interlace_count

\* PartialFramebuffer::update: the linear index of slot k
PartialIndex(k, interlace_count, interlace_offset) ==
    k * interlace_count + interlace_offset

\* PartialFramebuffer::update from slot k on
RECURSIVE PartialUpdateFrom(_, _, _)
PartialUpdateFrom(self, other, k) ==
    IF k >= PartialLength(self.width, self.height, self.interlace_count,
                          self.interlace_offset)
    THEN other
    ELSE LET index == PartialIndex(k, self.interlace_count, self.interlace_offset)
             x == index % self.width
             y == index \div self.width
         IN  PartialUpdateFrom(self, SetPixel(other, x, y, self.data[k + 1]), k + 1)

PartialUpdate(self, other) == PartialUpdateFrom(self, other, 0)

\* PartialFramebuffer::update panics: an assertion fails, or a slot or the
\* target's pixel does not exist
PartialUpdatePanics(self, other) ==
    \/ self.width # other.width
    \/ self.height # other.height
    \/ \E k \in 0..(PartialLength(self.width, self.height, self.interlace_count,
                                  self.interlace_offset) - 1) :
          LET index == PartialIndex(k, self.interlace_count, self.interlace_offset)
          IN  \/ k >= Len(self.data)
              \/ SetPixelPanics(other, index % self.width, index \div self.width)

\* self.frame += 1 on a u16 (the wrapped value of a build without overflow checks)
NextFrame(frame) == (frame + 1) % (U16Max + 1)

\* SmoothingFramebuffer::update: the pixels written to out, from linear index k on
RECURSIVE ShowFrom(_, _, _, _)
ShowFrom(self, out, scale, k) ==
    IF k >= self.width * self.height THEN out
    ELSE ShowFrom(self,
                  SetPixel(out, k % self.width, k \div self.width,
                           ColTimes(self.buffer[k + 1], scale)),
                  scale, k + 1)

\* SmoothingFramebuffer::update: the buffer afterwards, and out afterwards
SmoothingUpdateSelf(self) == [self EXCEPT !.frame = NextFrame(self.frame)]
SmoothingUpdateOut(self, out) ==
    ShowFrom(self, out, Rat(1, NextFrame(self.frame)), 0)

-----------------------------------------------------------------------------
(* tracer.rs: trace_partial_image, trace_image, trace_image_async *)

\* the colour trace_multi_ray returns for the unjittered ray through pixel (x, y)
\* in a frame in which the scene radiates at `lvl`
Radiance(lvl, x, y) == <<lvl * Unit, (lvl + x) * Unit, (lvl + 2 * y) * Unit>>

\* trace_partial_image from the pixel of linear index k on, with bounds the
\* whole framebuffer
RECURSIVE TracePartialFrom(_, _, _, _, _)
TracePartialFrom(fb, interlace_amount, interlace_offset, lvl, k) ==
    IF k >= fb.width * fb.height THEN fb
    ELSE LET x == k % fb.width
             y == k \div fb.width
         IN  TracePartialFrom(
                 IF OwnsPixel(x + y * fb.width, interlace_amount, interlace_offset)
                 THEN SetPixel(fb, x, y, Radiance(lvl, x, y))
                 ELSE fb,
                 interlace_amount, interlace_offset, lvl, k + 1)

TracePartialImage(fb, interlace_amount, interlace_offset, lvl) ==
    TracePartialFrom(fb, interlace_amount, interlace_offset, lvl, 0)

TraceImage(fb, lvl) == TracePartialImage(fb, 1, 0, lvl)

\* trace_image_async when no worker panics: the target after the partial
\* buffers of workers n, n + 1, ... have been merged
RECURSIVE MergeFrom(_, _, _, _)
MergeFrom(fb, threadCount, lvl, n) ==
    IF n >= threadCount THEN fb
    ELSE MergeFrom(
             PartialUpdate(
                 TracePartialImage(PartialNew(fb.width, fb.height, threadCount, n),
                                   threadCount, n, lvl),
                 fb),
             threadCount, lvl, n + 1)

TraceImageAsync(fb, threadCount, lvl) == MergeFrom(fb, threadCount, lvl, 0)

-----------------------------------------------------------------------------
(* main.rs: the event pump *)

Events == {"space", "quit", "other"}

\* the while-let loop over the polled events: the paused flag afterwards, and
\* whether Event::Quit broke out of 'rtx_loop
RECURSIVE PollEvents(_, _)
PollEvents(isPaused, evs) ==
    IF evs = <<>> THEN [paused |-> isPaused, quit |-> FALSE]
    ELSE IF Head(evs) = "quit" THEN [paused |-> isPaused, quit |-> TRUE]
    ELSE IF Head(evs) = "space" THEN PollEvents(~isPaused, Tail(evs))
    ELSE PollEvents(isPaused, Tail(evs))

EventSeqs == SeqsUpTo(Events, MaxEvents)

FrameGuardInclusive(frame) == frame <= U16Max

\* the loop renders another frame only while get_frame() < u16::MAX
FrameGuard(frame) == frame < U16Max

-----------------------------------------------------------------------------
(* The render loop of main, with trace_image_async step by step *)

\* what the scene can radiate in a frame
Levels == {1, 3}

IsectAbsent ==
    /\ scene = [objects |-> <<>>]
    /\ ray = [pos |-> Vec(0, 0, 0), normal |-> Vec(0, 0, 1)]
    /\ hits = <<>>
    /\ found = None
    /\ cast = FALSE

NoneRendered(fb) == [k \in 1..(fb.width * fb.height) |-> <<>>]

\* the images and worker counts rendered: <<width, height, num_threads>>; every
\* image of at most MaxPixels pixels with every worker count up to MaxThreads,
\* and the 4 x 4 image rendered by 2 workers
Configs ==
    { <<w, h, n>> \in (1..MaxPixels) \X (1..MaxPixels) \X (1..MaxThreads) :
          w * h <= MaxPixels }
    \cup {<<4, 4, 2>>}

InitLoop(configs) ==
    /\ IsectAbsent
    /\ UnitsAbsent
    /\ \E c \in configs :
          /\ buffer = SmoothingNew(c[1], c[2])
          /\ shown = SinkNew(c[1], c[2])
          /\ num_threads = c[3]
    /\ paused = FALSE
    /\ pc = "loop"
    /\ loop_i = 0
    /\ partial = <<>>
    /\ poisoned = <<>>
    /\ threads = <<>>
    /\ level = 0
    /\ reference = buffer
    /\ passStart = buffer
    /\ contributions = <<>>
    /\ rendered = NoneRendered(buffer)
    /\ wrote = <<>>

Init == InitLoop(Configs)

\* the if-branch of 'rtx_loop up to the call of trace_image_async
RenderBegin(lvl) ==
    /\ pc = "loop"
    /\ ~paused
    /\ FrameGuard(buffer.frame)
    /\ buffer.frame < MaxFrames
    /\ shown' = SinkNew(buffer.width, buffer.height)
    /\ level' = lvl
    /\ passStart' = buffer
    /\ reference' = TraceImage(buffer, lvl)
    /\ pc' = "spawn"
    /\ loop_i' = 0
    /\ partial' = <<>>
    /\ poisoned' = <<>>
    /\ threads' = <<>>
    /\ rendered' = NoneRendered(buffer)
    /\ wrote' = <<>>
    /\ UNCHANGED <<isectVars, unitVars, buffer, num_threads, paused, contributions>>

\* one iteration of the loop that creates a PartialFramebuffer and spawns its worker
SpawnWorker ==
    /\ pc = "spawn"
    /\ loop_i < num_threads
    /\ partial' = Append(partial,
                         PartialNew(buffer.width, buffer.height, num_threads, loop_i))
    /\ poisoned' = Append(poisoned, FALSE)
    /\ threads' = Append(threads,
                         [state |-> "running", x |-> 0, y |-> 0,
                          fb |-> Len(partial) + 1,
                          interlace_amount |-> num_threads,
                          interlace_offset |-> loop_i])
    /\ wrote' = Append(wrote, {})
    /\ IF loop_i + 1 < num_threads
       THEN /\ loop_i' = loop_i + 1
            /\ pc' = pc
       ELSE /\ loop_i' = 0
            /\ pc' = "join"
    /\ UNCHANGED <<isectVars, unitVars, buffer, shown, num_threads, paused, level, reference,
                   passStart, contributions, rendered>>

\* a worker is still running while main has not unwound or exited
Alive(t) ==
    /\ pc \notin {"panicked", "exited"}
    /\ t \in 1..Len(threads)
    /\ threads[t].state = "running"

\* one iteration of the pixel loop of trace_partial_image in worker t
ThreadStep(t) ==
    /\ Alive(t)
    /\ LET th == threads[t]
           fb == partial[th.fb]
           index == th.x + th.y * fb.width
           mine == OwnsPixel(index, th.interlace_amount, th.interlace_offset)
           last == th.x + 1 >= fb.width /\ th.y + 1 >= fb.height
           moved == IF th.x + 1 < fb.width
                    THEN [th EXCEPT !.x = th.x + 1]
                    ELSE [th EXCEPT !.x = 0, !.y = th.y + 1]
       IN  IF mine /\ SetPixelPanics(fb, th.x, th.y)
           THEN /\ threads' = [threads EXCEPT
                                  ![t].state = "panicked", ![t].x = 0, ![t].y = 0]
                /\ poisoned' = [poisoned EXCEPT ![th.fb] = TRUE]
                /\ UNCHANGED <<partial, rendered, wrote>>
           ELSE /\ threads' = [threads EXCEPT
                                  ![t] = IF last
                                         THEN [moved EXCEPT !.state = "finished"]
                                         ELSE moved]
                /\ partial' = IF mine
                              THEN [partial EXCEPT
                                      ![th.fb] = SetPixel(fb, th.x, th.y,
                                                          Radiance(level, th.x, th.y))]
                              ELSE partial
                /\ rendered' = IF mine
                               THEN [rendered EXCEPT ![index + 1] = Append(@, t - 1)]
                               ELSE rendered
                /\ wrote' = IF mine
                            THEN [wrote EXCEPT ![th.fb] = @ \cup {t - 1}]
                            ELSE wrote
                /\ UNCHANGED poisoned
    /\ UNCHANGED <<isectVars, unitVars, buffer, shown, num_threads, paused, pc, loop_i, level,
                   reference, passStart, contributions>>

\* worker t panics while it holds the lock of its PartialFramebuffer
ThreadPanic(t) ==
    /\ Alive(t)
    /\ threads' = [threads EXCEPT ![t].state = "panicked", ![t].x = 0, ![t].y = 0]
    /\ poisoned' = [poisoned EXCEPT ![threads[t].fb] = TRUE]
    /\ UNCHANGED <<isectVars, unitVars, buffer, shown, num_threads, paused, pc, loop_i, partial,
                   level, reference, passStart, contributions, rendered, wrote>>

JoinReadyAlways(state) == TRUE

\* JoinHandle::join returns once the thread has ended
JoinReady(state) == state \in {"finished", "panicked"}

JoinUnwrapNeverPanics(state) == FALSE

\* handle.join().unwrap() panics when the thread panicked
JoinUnwrapPanics(state) == state = "panicked"

\* one iteration of the loop that joins the workers
JoinWorker ==
    /\ pc = "join"
    /\ JoinReady(threads[loop_i + 1].state)
    /\ IF JoinUnwrapPanics(threads[loop_i + 1].state)
       THEN /\ pc' = "panicked"
            /\ loop_i' = loop_i
       ELSE IF loop_i + 1 < Len(threads)
       THEN /\ pc' = pc
            /\ loop_i' = loop_i + 1
       ELSE /\ pc' = "merge"
            /\ loop_i' = 0
    /\ UNCHANGED <<isectVars, unitVars, buffer, shown, num_threads, paused, partial, poisoned,
                   threads, level, reference, passStart, contributions, rendered,
                   wrote>>

\* the Mutex of partial[j] is held: its worker is inside trace_partial_image
Locked(j) == \E t \in 1..Len(threads) : threads[t].fb = j /\ threads[t].state = "running"

\* one iteration of the loop that merges the partial buffers into the target
MergePartial ==
    /\ pc = "merge"
    /\ ~Locked(loop_i + 1)
    /\ IF poisoned[loop_i + 1] \/ PartialUpdatePanics(partial[loop_i + 1], buffer)
       THEN /\ pc' = "panicked"
            /\ loop_i' = loop_i
            /\ buffer' = buffer
       ELSE /\ buffer' = PartialUpdate(partial[loop_i + 1], buffer)
            /\ IF loop_i + 1 < Len(partial)
               THEN /\ pc' = pc
                    /\ loop_i' = loop_i + 1
               ELSE /\ pc' = "present"
                    /\ loop_i' = 0
    /\ UNCHANGED <<isectVars, unitVars, shown, num_threads, paused, partial, poisoned, threads,
                   level, reference, passStart, contributions, rendered, wrote>>

\* the rest of the if-branch (buffer.update, present) and the event poll
Present(evs) ==
    /\ pc = "present"
    /\ buffer' = SmoothingUpdateSelf(buffer)
    /\ shown' = SmoothingUpdateOut(buffer, shown)
    /\ contributions' = Append(contributions, level)
    /\ paused' = PollEvents(paused, evs).paused
    /\ pc' = IF PollEvents(paused, evs).quit THEN "exited" ELSE "loop"
    /\ UNCHANGED <<isectVars, unitVars, num_threads, loop_i, partial, poisoned, threads, level,
                   reference, passStart, rendered, wrote>>

\* the else-branch (yield_now) and the event poll
Idle(evs) ==
    /\ pc = "loop"
    /\ ~(~paused /\ FrameGuard(buffer.frame))
    /\ paused' = PollEvents(paused, evs).paused
    /\ pc' = IF PollEvents(paused, evs).quit THEN "exited" ELSE "loop"
    /\ UNCHANGED <<isectVars, unitVars, buffer, shown, num_threads, loop_i, partial, poisoned,
                   threads, level, reference, passStart, contributions, rendered,
                   wrote>>

Next ==
    \/ \E lvl \in Levels : RenderBegin(lvl)
    \/ SpawnWorker
    \/ \E t \in 1..MaxThreads + 1 : ThreadStep(t)
    \/ \E t \in 1..MaxThreads + 1 : ThreadPanic(t)
    \/ JoinWorker
    \/ MergePartial
    \/ \E evs \in EventSeqs : Present(evs)
    \/ \E evs \in EventSeqs : Idle(evs)

Spec == Init /\ [][Next]_vars

-----------------------------------------------------------------------------
(* The render loop up to the saturation of the frame counter: every frame     *)
(* radiates at level 1 and trace_image_async is taken as one step             *)

InitSaturate == InitLoop({<<2, 1, 2>>})

\* the whole if-branch of 'rtx_loop when no worker panics, and the event poll
RenderFrame(lvl, evs) ==
    /\ pc = "loop"
    /\ ~paused
    /\ FrameGuard(buffer.frame)
    /\ LET merged == TraceImageAsync(buffer, num_threads, lvl)
       IN  /\ buffer' = SmoothingUpdateSelf(merged)
           /\ shown' = SmoothingUpdateOut(merged, SinkNew(buffer.width, buffer.height))
    /\ level' = lvl
    /\ paused' = PollEvents(paused, evs).paused
    /\ pc' = IF PollEvents(paused, evs).quit THEN "exited" ELSE "loop"
    /\ UNCHANGED <<isectVars, unitVars, num_threads, loop_i, partial, poisoned, threads,
                   reference, passStart, contributions, rendered, wrote>>

NextSaturate ==
    \/ \E evs \in EventSeqs : RenderFrame(1, evs)
    \/ \E evs \in EventSeqs : Idle(evs)

SpecSaturate == InitSaturate /\ [][NextSaturate]_vars

-----------------------------------------------------------------------------
(* Claims about the render pass and the accumulation buffer *)

Pixels == 1..(buffer.width * buffer.height)

AllFinished ==
    /\ Len(threads) = num_threads
    /\ \A t \in 1..Len(threads) : threads[t].state = "finished"

AnyPanicked == \E t \in 1..Len(threads) : threads[t].state = "panicked"

\* C1: when trace_image_async with N workers has merged its partial buffers, the
\* target holds pixel for pixel what trace_image (one worker, offset 0) leaves in
\* a target that began the pass with the same contents, whether or not N divides
\* width * height.
C1_AsyncEqualsSequential ==
    pc = "present" => buffer.buffer = reference.buffer

\* a second frame rendered by workers whose count does not divide the pixel count
C1_Witness ==
    /\ pc = "present"
    /\ buffer.frame >= 1
    /\ num_threads >= 2
    /\ (buffer.width * buffer.height) % num_threads # 0
    /\ buffer.width * buffer.height > num_threads

\* the 4 x 4 image rendered by 2 workers
C1_Witness4x4 ==
    /\ pc = "present"
    /\ buffer.width = 4
    /\ buffer.height = 4
    /\ num_threads = 2

\* the sum over the first n completed frames of what pixel k received, channel c
RECURSIVE Contributed(_, _, _)
Contributed(k, c, n) ==
    IF n = 0 THEN 0
    ELSE Contributed(k, c, n - 1)
         + Radiance(contributions[n], (k - 1) % buffer.width,
                    (k - 1) \div buffer.width)[c]

\* C2: after k >= 1 completed frames the value shown for every pixel is the sum
\* of the pixel's k contributions divided by k.
C2_ShownIsMean ==
    (Len(contributions) >= 1 /\ pc \in {"loop", "exited"}) =>
        \A k \in Pixels : \A c \in 1..3 :
            shown.pixels[k][c] =
                Rat(Contributed(k, c, Len(contributions)), Len(contributions))

\* pixel (0, 0) received 1.0, then 3.0, and shows 2.0
C2_Witness ==
    /\ contributions = <<1, 3>>
    /\ pc = "loop"
    /\ shown.pixels[1] = <<<<2 * Unit, 1>>, <<2 * Unit, 1>>, <<2 * Unit, 1>>>>

\* C3: in a pass with N workers every pixel is rendered by exactly one worker,
\* the one whose offset is the pixel's linear index mod N, and no two workers
\* store into the same PartialFramebuffer or render the same pixel, in every
\* interleaving.
C3_OneWorkerPerPixel ==
    /\ \A k \in Pixels :
          /\ Len(rendered[k]) <= 1
          /\ \A n \in 1..Len(rendered[k]) : rendered[k][n] = (k - 1) % num_threads
    /\ \A j \in 1..Len(wrote) : wrote[j] \subseteq {j - 1}
    /\ AllFinished => \A k \in Pixels : Len(rendered[k]) = 1

\* every worker of a pass whose worker count does not divide the pixel count
\* has finished
C3_Witness ==
    /\ AllFinished
    /\ num_threads >= 2
    /\ (buffer.width * buffer.height) % num_threads # 0
    /\ buffer.width * buffer.height > num_threads

\* C4: no set_pixel reaches the target before every worker of the pass has
\* finished: the merge of any partial buffer comes after the join of all workers.
C4_MergeAfterJoin ==
    (pc \in {"spawn", "join", "merge"} /\ (pc = "merge" \/ buffer # passStart)) =>
        AllFinished

\* the first partial buffer has been merged and another is still to be merged
C4_Witness ==
    /\ pc = "merge"
    /\ loop_i >= 1
    /\ loop_i < num_threads
    /\ buffer # passStart

\* C10: if a worker of a pass panics, trace_image_async does not return, no
\* partial buffer of the pass is merged into the target, the frame counter is
\* not incremented, and nothing is retried.
C10_PanicIsFatal ==
    /\ AnyPanicked =>
          /\ pc \in {"spawn", "join", "panicked"}
          /\ buffer = passStart
    /\ pc = "panicked" => ~ENABLED Next

\* main has unwound although another worker of the pass finished its pixels
C10_Witness ==
    /\ pc = "panicked"
    /\ AnyPanicked
    /\ \E t \in 1..Len(threads) : threads[t].state = "finished"
    /\ buffer.frame >= 1

\* C9: the u16 frame counter never wraps: it rises by one with every completed
\* frame until it is 65535, and from then on neither it nor any running sum
\* changes.
C9_CounterSaturates ==
    [][/\ buffer'.frame \in {buffer.frame, buffer.frame + 1}
       /\ buffer' # buffer => buffer'.frame = buffer.frame + 1
       /\ buffer.frame = U16Max => buffer' = buffer]_vars

\* the counter is at its maximum and the loop idles
C9_Witness ==
    /\ buffer.frame = U16Max
    /\ pc = "loop"
    /\ ~paused

-----------------------------------------------------------------------------
(* tracer.rs: trace_single_ray and trace_multi_ray *)

\* largest max_reflect, and largest reflect_samples and refract_samples
MaxReflect == 2
MaxSamples == 1
\* most hits the model follows a path through (a wrapped counter allows 65535)
MaxHits == MaxReflect + 1

White == Vec(1, 1, 1)
Grey == <<Half, Half, Half>>

\* what get_intersection can return for a hit: the fields of Intersect that
\* trace_single_ray reads apart from the geometry
Intersects ==
    [is_entry : BOOLEAN,
     prop : [opacity : {0, Unit}, color : {Grey}, emission : {White}]]

\* what rng.gen::<f64>() can return: a value of [0, 1)
Draws == {0, Half}

\* the direction the camera sends the ray in: at the sun
InDirections == {Vec(0, -1, 0)}

\* the directions a reflection can leave the ray with
ReflectedDirections == {Vec(0, 1, 0), Vec(0, -1, 0)}

\* the directions a refraction can leave the ray with: NaN when the argument of
\* the square root is negative
RefractedDirections == {Vec(0, 0, 1), <<NaN, NaN, NaN>>}

\* the sky of a scene
Sky ==
    [ground_color |-> <<1, 1, 0>>,
     horizon_color |-> <<3, Unit, Unit>>,
     skybox_color |-> <<0, 3, 3>>,
     sun_color |-> <<2 * Unit, 2 * Unit, Unit + Half>>,
     sun_direction |-> Vec(0, -1, 0),
     sun_radius |-> 3]

\* f64::clamp(-1.0, 1.0)
Clamp(x) ==
    IF IsNaN(x) THEN NaN ELSE IF x < -Unit THEN -Unit ELSE IF x > Unit THEN Unit ELSE x

\* the colour trace_single_ray adds to result.color when the ray hits nothing
MissColor(sc, normal) ==
    LET coeff == Clamp(FMul(normal[2], 3 * Unit))
        base == IF FGe(coeff, 0)
                THEN VAdd(sc.horizon_color,
                          VScale(VSub(sc.ground_color, sc.horizon_color), coeff))
                ELSE VAdd(sc.horizon_color,
                          VScale(VSub(sc.skybox_color, sc.horizon_color), FNeg(coeff)))
        sun_dot == Dot(normal, sc.sun_direction)
    IN  IF FGe(sun_dot, sc.sun_radius)
        THEN LET sun_coeff == FDiv(FSub(sun_dot, sc.sun_radius),
                                   FSub(Unit, sc.sun_radius))
             IN  VAdd(base, VScale(VSub(sc.sun_color, base), sun_coeff))
        ELSE base

RefractionBranchOnEntryOnly(intersect, refract_rng) ==
    intersect.is_entry /\ FGt(refract_rng, intersect.prop.opacity)

\* trace_single_ray takes the refraction branch at a hit
RefractionBranch(intersect, refract_rng) ==
    ~intersect.is_entry \/ FGt(refract_rng, intersect.prop.opacity)

\* reflect -= 1 on a u16: the value a build without overflow checks leaves
ReflectMinusOne(r) == (r - 1) % (U16Max + 1)

\* reflect -= 1 on a u16: a build with overflow checks panics
ReflectUnderflows(r) == r = 0

\* tmp.did_reflect as u16 * reflect_samples + tmp.did_refract as u16 * refract_samples
SamplesOf(t, res) ==
    ((IF res.did_reflect THEN t.reflect_samples ELSE 0)
     + (IF res.did_refract THEN t.refract_samples ELSE 0)) % (U16Max + 1)

\* tmp.color /= (samples + 1) as f64, as exact rationals
Averaged(color, n) == [c \in 1..3 |->
    IF IsNaN(color[c]) THEN <<NaN, 1>> ELSE Rat(color[c], n)]

\* (samples + 1) on a u16
SampleCount(n) == (n + 1) % (U16Max + 1)

\* nothing has happened on a path yet; last is the latest hit that chose a branch
FreshPath ==
    [hits |-> 0, refracted |-> FALSE, reflected |-> FALSE, exhausted |-> FALSE,
     missed |-> FALSE, wrapped |-> FALSE, last |-> <<>>]

FreshResult == [color |-> Black, did_reflect |-> FALSE, did_refract |-> FALSE]

InitTrace ==
    /\ IsectAbsent
    /\ PassAbsent
    /\ TransformAbsent
    /\ PartialAbsent
    /\ SmoothingAbsent
    /\ tracer \in [max_reflect : 0..MaxReflect,
                   reflect_samples : 0..MaxSamples,
                   refract_samples : 0..MaxSamples]
    /\ tpc = "call"
    /\ arg_ray \in [normal : InDirections]
    /\ sample = 0
    /\ reflect = 0
    /\ result = FreshResult
    /\ color_mask = White
    /\ path_ray = arg_ray
    /\ path = FreshPath
    /\ primary = FreshPath
    /\ tmp = FreshResult
    /\ samples = 0
    /\ total = Black

traceRest == <<isectVars, passVars, transformVars, partialVars, smoothingVars>>

\* trace_multi_ray calls trace_single_ray, which runs up to its loop
CallSingle ==
    /\ tpc = "call"
    /\ result' = FreshResult
    /\ color_mask' = White
    /\ reflect' = tracer.max_reflect
    /\ path_ray' = arg_ray
    /\ path' = FreshPath
    /\ tpc' = "loop"
    /\ UNCHANGED <<traceRest, tracer, arg_ray, sample, primary, tmp, samples, total>>

\* trace_single_ray returns res to trace_multi_ray, which runs up to its next
\* call of trace_single_ray or to its own return
Return(res, p) ==
    LET n == IF sample = 0 THEN SamplesOf(tracer, res) ELSE samples
        sum == IF sample = 0 THEN res
               ELSE [tmp EXCEPT !.color = VAdd(tmp.color, res.color)]
    IN  /\ result' = res
        /\ path' = [p EXCEPT !.last = <<>>]
        /\ primary' = IF sample = 0 THEN [p EXCEPT !.last = <<>>] ELSE primary
        /\ samples' = n
        /\ sample' = sample + 1
        /\ total' = IF sample = 0 THEN res.color ELSE VAdd(total, res.color)
        /\ IF sample + 1 > n
           THEN /\ tmp' = [sum EXCEPT !.color = Averaged(sum.color, SampleCount(n))]
                /\ tpc' = "returned"
           ELSE /\ tmp' = sum
                /\ tpc' = "call"

\* trace_single_ray's loop body up to the bounce limit when get_intersection
\* returns Some(intersect): the result, the mask, the counter and the path
AfterHit(intersect) ==
    [res |-> [result EXCEPT
                 !.color = VAdd(result.color,
                                VMul(color_mask, intersect.prop.emission)),
                 !.did_reflect = TRUE],
     mask |-> VMul(color_mask, intersect.prop.color),
     reflect |-> ReflectMinusOne(reflect),
     path |-> [path EXCEPT !.hits = @ + 1,
                           !.wrapped = @ \/ ReflectUnderflows(reflect)]]

\* the iteration in which the hit uses up the bounce budget: trace_single_ray
\* returns
HitExhausts(intersect) ==
    /\ tpc = "loop"
    /\ path.hits < MaxHits
    /\ LET h == AfterHit(intersect)
       IN  /\ h.reflect = 0
           /\ color_mask' = h.mask
           /\ reflect' = h.reflect
           /\ Return(h.res, [h.path EXCEPT !.exhausted = TRUE])
    /\ UNCHANGED <<traceRest, tracer, arg_ray, path_ray>>

\* the iteration in which the hit leaves budget: refract_rng is the draw and dir
\* the direction the branch taken leaves the ray with
HitBounces(intersect, refract_rng, dir) ==
    /\ tpc = "loop"
    /\ path.hits < MaxHits
    /\ LET h == AfterHit(intersect)
           refracts == RefractionBranch(intersect, refract_rng)
       IN  /\ h.reflect # 0
           /\ dir \in (IF refracts THEN RefractedDirections ELSE ReflectedDirections)
           /\ path' = [h.path EXCEPT
                          !.refracted = @ \/ refracts,
                          !.reflected = @ \/ ~refracts,
                          !.last = [is_entry |-> intersect.is_entry,
                                    opacity |-> intersect.prop.opacity,
                                    refract_rng |-> refract_rng,
                                    refracts |-> refracts]]
           /\ result' = h.res
           /\ color_mask' = h.mask
           /\ reflect' = h.reflect
    /\ path_ray' = [normal |-> dir]
    /\ UNCHANGED <<traceRest, tracer, arg_ray, tpc, sample, primary, tmp, samples,
                   total>>

\* the same iteration in a build with overflow checks when reflect is 0:
\* reflect -= 1 panics
HitPanics(intersect) ==
    /\ tpc = "loop"
    /\ path.hits < MaxHits
    /\ ReflectUnderflows(reflect)
    /\ result' = [result EXCEPT
                     !.color = VAdd(result.color,
                                    VMul(color_mask, intersect.prop.emission))]
    /\ color_mask' = VMul(color_mask, intersect.prop.color)
    /\ path' = [path EXCEPT !.hits = @ + 1]
    /\ tpc' = "panicked"
    /\ UNCHANGED <<traceRest, tracer, arg_ray, sample, reflect, path_ray, primary,
                   tmp, samples, total>>

\* the iteration in which get_intersection returns None
Miss ==
    /\ tpc = "loop"
    /\ Return([result EXCEPT
                  !.color = VAdd(result.color,
                                 VMul(color_mask, MissColor(Sky, path_ray.normal)))],
              [path EXCEPT !.missed = TRUE])
    /\ UNCHANGED <<traceRest, tracer, arg_ray, reflect, color_mask, path_ray>>

NextTrace ==
    \/ CallSingle
    \/ \E intersect \in Intersects : HitExhausts(intersect)
    \/ \E intersect \in Intersects, refract_rng \in Draws,
          dir \in ReflectedDirections \cup RefractedDirections :
          HitBounces(intersect, refract_rng, dir)
    \/ \E intersect \in Intersects : HitPanics(intersect)
    \/ Miss

SpecTrace == InitTrace /\ [][NextTrace]_vars

-----------------------------------------------------------------------------
(* Claims about trace_single_ray and trace_multi_ray *)

\* a call of trace_single_ray has just returned: result and path are its own
SingleReturned == tpc \in {"call", "returned"} /\ sample >= 1

\* C11: trace_multi_ray takes the primary sample, then reflect_samples more if
\* the primary path reflected (or ran out of bounces) and refract_samples more
\* if it refracted, and returns the sum of the sample colours divided by the
\* number of samples; a primary path that hits nothing yields one sample.
C11_SamplesFollowPath ==
    tpc = "returned" =>
        /\ sample = 1 + (IF primary.reflected \/ primary.exhausted
                         THEN tracer.reflect_samples ELSE 0)
                      + (IF primary.refracted THEN tracer.refract_samples ELSE 0)
        /\ tmp.color = Averaged(total, sample)
        /\ primary.hits = 0 => sample = 1

\* C12 as stated: at a hit that leaves bounce budget the refraction branch is
\* taken iff the surface is entered and the draw exceeds the opacity, and the
\* reflection branch otherwise, at every exit hit in particular.
C12_RefractsOnlyOnEntry ==
    (tpc = "loop" /\ path.last # <<>>) =>
        (path.last.refracts <=>
            (path.last.is_entry /\ FGt(path.last.refract_rng, path.last.opacity)))

\* C12 as amended: at a hit that leaves bounce budget the refraction branch is
\* taken iff the surface is left from inside (is_entry false) or the draw exceeds
\* the opacity; the reflection branch is taken only at an entry hit whose draw
\* does not exceed the opacity.
C12_RefractsOnExitOrDraw ==
    (tpc = "loop" /\ path.last # <<>>) =>
        /\ path.last.refracts <=>
              (~path.last.is_entry \/ FGt(path.last.refract_rng, path.last.opacity))
        /\ path.last.refracts => path.refracted /\ path_ray.normal \in RefractedDirections
        /\ ~path.last.refracts => path.reflected /\ path_ray.normal \in ReflectedDirections

\* an exit hit on an opaque material took the refraction branch, and an entry
\* hit before it reflected
C12_Witness ==
    /\ tpc = "loop"
    /\ path.last # <<>>
    /\ ~path.last.is_entry
    /\ path.last.opacity = Unit
    /\ path.last.refracts
    /\ path.reflected

\* C13: trace_single_ray returns after at most max_reflect hits, on the first
\* miss with the miss contribution added, or when the bounce budget reaches zero
\* without a miss contribution and with did_reflect set.
C13_ReturnsWithinBudget ==
    /\ tpc # "panicked"
    /\ tpc # "absent" => path.hits <= tracer.max_reflect
    /\ SingleReturned =>
          \/ path.missed /\ ~path.exhausted
          \/ path.exhausted /\ ~path.missed /\ result.did_reflect /\ reflect = 0

\* C14: of the RayTraceResult trace_single_ray returns, did_refract is true iff
\* the path took the refraction branch, and did_reflect is true iff it took the
\* reflection branch or ran out of bounces.
C14_FlagsRecordPath ==
    SingleReturned =>
        /\ result.did_refract <=> path.refracted
        /\ result.did_reflect <=> (path.reflected \/ path.exhausted)

\* C18: for every max_reflect, 0 included, the decrement of the remaining-bounce
\* counter neither panics nor wraps: the counter stays within 0..max_reflect.
C18_CounterNeverUnderflows ==
    /\ tpc = "panicked" => ~ReflectUnderflows(reflect)
    /\ tpc # "absent" => reflect \in 0..tracer.max_reflect

-----------------------------------------------------------------------------
(* scene.rs: the constructors and setters of Transform, Object::set_transform *)

TransformIdentity ==
    [pos |-> Vec(0, 0, 0), scale |-> Vec(1, 1, 1), angle |-> <<0, 0, 0>>,
     mtx |-> MatIdentity, inv_mtx |-> MatIdentity]

SetPos(t, pos) == [t EXCEPT !.pos = pos]

SetScale(t, scale) == GenMtx([t EXCEPT !.scale = scale])

SetAngleKeepsMatrices(t, angle) == [t EXCEPT !.angle = angle]

SetAngle(t, angle) == GenMtx([t EXCEPT !.angle = angle])

\* the positions, scales and angles (in degrees) callers pass
Positions == {Vec(0, 0, 0), <<0, Half, 2 * Unit>>}
Scales == {Vec(1, 1, 1), Vec(2, 1, 1)}
Angles == {<<0, 0, 0>>, <<90, 0, 0>>, <<0, 180, 0>>, <<0, 0, -90>>, <<90, 90, 0>>}

InitTransform ==
    /\ IsectAbsent
    /\ PassAbsent
    /\ TraceAbsent
    /\ PartialAbsent
    /\ SmoothingAbsent
    /\ transform = TransformIdentity
    /\ held = TransformIdentity

transformRest == <<isectVars, passVars, traceVars, partialVars, smoothingVars>>

\* let held = Transform::identity()
HoldIdentity ==
    /\ held' = TransformIdentity
    /\ UNCHANGED <<transformRest, transform>>

\* let held = Transform::from(pos, scale, angle)
HoldFrom(pos, scale, angle) ==
    /\ held' = TransformFrom(pos, scale, angle)
    /\ UNCHANGED <<transformRest, transform>>

\* let held = *object.transform()
HoldCopy ==
    /\ held' = transform
    /\ UNCHANGED <<transformRest, transform>>

\* held.set_pos(pos), held.set_scale(scale), held.set_angle(angle)
HeldSetPos(pos) ==
    /\ held' = SetPos(held, pos)
    /\ UNCHANGED <<transformRest, transform>>

HeldSetScale(scale) ==
    /\ held' = SetScale(held, scale)
    /\ UNCHANGED <<transformRest, transform>>

HeldSetAngle(angle) ==
    /\ held' = SetAngle(held, angle)
    /\ UNCHANGED <<transformRest, transform>>

\* the same setters through object.transform_mut()
ObjectSetPos(pos) ==
    /\ transform' = SetPos(transform, pos)
    /\ UNCHANGED <<transformRest, held>>

ObjectSetScale(scale) ==
    /\ transform' = SetScale(transform, scale)
    /\ UNCHANGED <<transformRest, held>>

ObjectSetAngle(angle) ==
    /\ transform' = SetAngle(transform, angle)
    /\ UNCHANGED <<transformRest, held>>

\* object.set_transform(held)
SetTransform ==
    /\ transform' = held
    /\ UNCHANGED <<transformRest, held>>

NextTransform ==
    \/ HoldIdentity
    \/ \E pos \in Positions, scale \in Scales, angle \in Angles :
          HoldFrom(pos, scale, angle)
    \/ HoldCopy
    \/ \E pos \in Positions : HeldSetPos(pos)
    \/ \E scale \in Scales : HeldSetScale(scale)
    \/ \E angle \in Angles : HeldSetAngle(angle)
    \/ \E pos \in Positions : ObjectSetPos(pos)
    \/ \E scale \in Scales : ObjectSetScale(scale)
    \/ \E angle \in Angles : ObjectSetAngle(angle)
    \/ SetTransform

SpecTransform == InitTransform /\ [][NextTransform]_vars

\* the cached matrices of t are those gen_mtx computes from t's angle
MatricesCurrent(t) ==
    /\ t.mtx = GenMtx(t).mtx
    /\ t.inv_mtx = GenMtx(t).inv_mtx

\* C15: after identity, from and any sequence of set_pos, set_scale, set_angle
\* and set_transform, the cached rotation matrix and inverse matrix of every
\* Transform are the ones generated from its current angle.
C15_MatricesNeverStale == MatricesCurrent(transform) /\ MatricesCurrent(held)

\* the object's Transform was turned after it was installed, and the value the
\* caller holds has another angle
C15_Witness ==
    /\ transform.angle = <<90, 90, 0>>
    /\ transform.pos # Vec(0, 0, 0)
    /\ held.angle = <<0, 0, -90>>
    /\ transform.mtx # held.mtx
    /\ transform.mtx # MatIdentity

-----------------------------------------------------------------------------
(* tracer.rs: a PartialFramebuffer on its own *)

\* the PartialFramebuffers built: <<width, height, interlace_count,
\* interlace_offset>>, every image of at most MaxPixels + 1 pixels with every
\* worker count up to MaxThreads and every offset below it
PartialConfigs ==
    { c \in (1..(MaxPixels + 1)) \X (1..(MaxPixels + 1)) \X (1..MaxThreads)
             \X (0..(MaxThreads - 1)) :
          c[1] * c[2] <= MaxPixels + 1 /\ c[4] < c[3] }

\* the colours workers store
Colours == {White, Grey}

InitPartial ==
    /\ IsectAbsent
    /\ PassAbsent
    /\ TraceAbsent
    /\ TransformAbsent
    /\ SmoothingAbsent
    /\ \E c \in PartialConfigs :
          /\ pfb = PartialNew(c[1], c[2], c[3], c[4])
          /\ target = RecorderNew(c[1], c[2])
          /\ stored = [k \in 1..(c[1] * c[2]) |-> None]

partialRest == <<isectVars, passVars, traceVars, transformVars, smoothingVars>>

\* pfb.set_pixel(x, y, col) for a pixel of the image
StorePixel(x, y, col) ==
    /\ ~target.updated
    /\ x < pfb.width
    /\ y < pfb.height
    /\ ~PartialSetPixelPanics(pfb, x, y)
    /\ pfb' = PartialSetPixel(pfb, x, y, col)
    /\ stored' = [stored EXCEPT ![x + y * pfb.width + 1] = Some(col)]
    /\ UNCHANGED <<partialRest, target>>

\* pfb.update(&mut target)
ScatterPartial ==
    /\ ~target.updated
    /\ target' = IF PartialUpdatePanics(pfb, target)
                 THEN [target EXCEPT !.updated = TRUE, !.panicked = TRUE]
                 ELSE [PartialUpdate(pfb, target) EXCEPT !.updated = TRUE]
    /\ UNCHANGED <<partialRest, pfb, stored>>

NextPartial ==
    \/ \E x \in 0..MaxPixels, y \in 0..MaxPixels, col \in Colours :
          StorePixel(x, y, col)
    \/ ScatterPartial

SpecPartial == InitPartial /\ [][NextPartial]_vars

\* the linear indices of the pixels with index congruent to the offset
OwnedIndices ==
    { k \in 0..(pfb.width * pfb.height - 1) :
          k % pfb.interlace_count = pfb.interlace_offset }

\* C16: a PartialFramebuffer has as many slots as there are pixels with linear
\* index congruent to its offset mod N, and update calls set_pixel on the target
\* once for each such pixel and for no other, at the pixel's (x, y), with the
\* colour last stored for it (zero if none was), and without a panic.
C16_ScatterExact ==
    /\ Len(pfb.data) = Cardinality(OwnedIndices)
    /\ target.updated =>
          /\ ~target.panicked
          /\ Len(target.calls) = Cardinality(OwnedIndices)
          /\ \A k \in OwnedIndices :
                \E n \in 1..Len(target.calls) :
                    target.calls[n] =
                        <<k % pfb.width, k \div pfb.width,
                          IF stored[k + 1] = None THEN Black ELSE stored[k + 1][1]>>
          /\ \A n \in 1..Len(target.calls) :
                (target.calls[n][1] + target.calls[n][2] * pfb.width) \in OwnedIndices
                /\ target.calls[n][1] < pfb.width
                /\ target.calls[n][2] < pfb.height

\* a buffer whose worker count does not divide the pixel count, with one owned
\* pixel stored twice and one never stored, has been scattered
C16_Witness ==
    /\ target.updated
    /\ (pfb.width * pfb.height) % pfb.interlace_count # 0
    /\ pfb.interlace_offset >= 1
    /\ Len(target.calls) >= 2
    /\ \E n \in 1..Len(target.calls) : target.calls[n][3] = Black
    /\ \E n \in 1..Len(target.calls) : target.calls[n][3] = Grey
    /\ \E k \in 1..Len(stored) : stored[k] = Some(White)

-----------------------------------------------------------------------------
(* tracer.rs: a SmoothingFramebuffer on its own *)

\* set_pixel calls the model follows a buffer through
MaxCalls == 2

InitSmoothing ==
    /\ IsectAbsent
    /\ PassAbsent
    /\ TraceAbsent
    /\ TransformAbsent
    /\ PartialAbsent
    /\ \E w \in 1..MaxPixels, h \in 1..MaxPixels :
          /\ w * h <= MaxPixels
          /\ sfb = SmoothingNew(w, h)
    /\ call = [n |-> 0, panicked |-> FALSE]

smoothingRest == <<isectVars, passVars, traceVars, transformVars, partialVars>>

\* sfb.set_pixel(x, y, col), for any x and y a caller can pass
PutPixel(x, y, col) ==
    /\ ~call.panicked
    /\ call.n < MaxCalls
    /\ sfb' = IF SmoothingSetPixelPanics(sfb, x, y) THEN sfb
              ELSE SmoothingSetPixel(sfb, x, y, col)
    /\ call' = [n |-> call.n + 1, x |-> x, y |-> y, col |-> col, before |-> sfb,
                panicked |-> SmoothingSetPixelPanics(sfb, x, y)]
    /\ UNCHANGED smoothingRest

\* sfb.update(out): the frame is complete
FrameDone ==
    /\ ~call.panicked
    /\ call.n >= 1
    /\ sfb.frame < MaxFrames
    /\ FrameGuard(sfb.frame)
    /\ sfb' = SmoothingUpdateSelf(sfb)
    /\ call' = [n |-> 0, panicked |-> FALSE]
    /\ UNCHANGED smoothingRest

NextSmoothing ==
    \/ \E x \in 0..(MaxPixels + 1), y \in 0..(MaxPixels + 1), col \in Colours :
          PutPixel(x, y, col)
    \/ FrameDone

SpecSmoothing == InitSmoothing /\ [][NextSmoothing]_vars

\* C17: set_pixel(x, y, col) adds col to the running sum of pixel (x, y) and
\* changes no other pixel and not the frame counter; with x >= width or
\* y >= height it is rejected and changes no running sum.
C17_SetPixelTouchesOnePixel ==
    call.n >= 1 =>
        IF call.x < sfb.width /\ call.y < sfb.height
        THEN /\ ~call.panicked
             /\ sfb.buffer =
                    [call.before.buffer EXCEPT
                        ![call.y * sfb.width + call.x + 1] = VAdd(@, call.col)]
             /\ sfb.frame = call.before.frame
        ELSE /\ call.panicked
             /\ sfb.buffer = call.before.buffer

====
